---- MODULE Spec2Model ----
(***************************************************************************)
(* Model of src/src/lib.rs: the query helpers find_process and             *)
(* find_base_address, and the CR3 recovery routine fix_cr3 (poll loop,     *)
(* report parsing, trial loop) running against a nondeterministic backend. *)
(*                                                                         *)
(* Text is a sequence of one-character strings.  A u64 is represented by   *)
(* its canonical base-16 numeral: the sequence of its hex digit values,    *)
(* most significant first, without leading zeros (zero is <<>>), of at     *)
(* most 16 digits.  This keeps the 64-bit width exactly: a numeral of 17   *)
(* significant digits is the overflow case of u64::from_str_radix.         *)
(***************************************************************************)
EXTENDS Integers, Sequences, FiniteSets, TLC

VARIABLES
    pc,             \* position of the caller: idle, or a position inside fix_cr3
    op,             \* the library function called last
    ret,            \* what that call returned (NoRet while it has not returned)
    printed,        \* the lines that call printed with println!
    calls,          \* the backend calls that call made (progress polls excepted)
    progress,       \* outcome of the latest progress_percent.txt read
    report,         \* the bytes of dtb.txt as read by fix_cr3
    possible_dtbs,  \* fix_cr3's local Vec<u64>
    idx,            \* position of the trial loop in possible_dtbs (1-based)
    pid,            \* fix_cr3's pid argument
    config,         \* the backend's configuration store: key -> value
    oracle,         \* what the backend will answer to the trial at each position
    config0,        \* the configuration store when fix_cr3 was entered
    peer            \* a second caller of fix_cr3 on the same pid, if there is one

vars == <<pc, op, ret, printed, calls, progress, report, possible_dtbs, idx,
          pid, config, oracle, config0, peer>>

\* ------------------------------------------------------------------ bounds
MaxLines == 3
MaxLen == 5
MaxParseLines == 2

\* ------------------------------------------------------------ return values
NoRet == [tag |-> "NoRet"]
Ok(b) == [tag |-> "Ok", val |-> b]
ErrRet == [tag |-> "Err"]
Some(v) == [tag |-> "Some", val |-> v]
None == [tag |-> "None"]

\* -------------------------------------------------------------- characters
NL == "\n"
CR == "\r"
TAB == "\t"
SP == " "

\* char::is_whitespace restricted to the characters the model uses
IsWhitespace(c) == c \in {SP, TAB, CR, NL}

\* char::to_digit(16)
HexTable ==
    ("0" :> 0) @@ ("1" :> 1) @@ ("2" :> 2) @@ ("3" :> 3) @@ ("4" :> 4) @@
    ("5" :> 5) @@ ("6" :> 6) @@ ("7" :> 7) @@ ("8" :> 8) @@ ("9" :> 9) @@
    ("a" :> 10) @@ ("b" :> 11) @@ ("c" :> 12) @@ ("d" :> 13) @@ ("e" :> 14) @@
    ("f" :> 15) @@ ("A" :> 10) @@ ("B" :> 11) @@ ("C" :> 12) @@ ("D" :> 13) @@
    ("E" :> 14) @@ ("F" :> 15)

IsHexDigit(c) == c \in DOMAIN HexTable

U64Digits == 16

\* ---------------------------------------------------- u64::from_str_radix
\* The digit loop of from_str_radix(_, 16): acc is the numeral so far.
\* checked_mul(16) overflows exactly when acc already has 16 significant
\* digits (acc >= 2^60); the checked_add of a digit below 16 then cannot.
RECURSIVE RadixLoop(_, _, _)
RadixLoop(tok, i, acc) ==
    IF i > Len(tok) THEN [ok |-> TRUE, val |-> acc]
    ELSE IF ~IsHexDigit(tok[i]) THEN [ok |-> FALSE, val |-> <<>>]
    ELSE IF Len(acc) = U64Digits THEN [ok |-> FALSE, val |-> <<>>]
    ELSE IF acc = <<>> /\ HexTable[tok[i]] = 0
         THEN RadixLoop(tok, i + 1, <<>>)
         ELSE RadixLoop(tok, i + 1, Append(acc, HexTable[tok[i]]))

\* u64::from_str_radix(tok, 16): empty is an error, one leading "+" is
\* accepted (a lone sign is an error), "-" is an invalid digit.
from_str_radix(tok) ==
    IF tok = <<>> THEN [ok |-> FALSE, val |-> <<>>]
    ELSE IF tok = <<"+">> THEN [ok |-> FALSE, val |-> <<>>]
    ELSE IF tok[1] = "+" THEN RadixLoop(tok, 2, <<>>)
    ELSE RadixLoop(tok, 1, <<>>)

\* ----------------------------------------------------------- str::lines
\* split_inclusive('\n'), then strip the "\n" and one "\r" before it.
StripCR(line) ==
    IF line # <<>> /\ line[Len(line)] = CR
    THEN SubSeq(line, 1, Len(line) - 1)
    ELSE line

RECURSIVE LinesFrom(_, _, _)
LinesFrom(text, i, cur) ==
    IF i > Len(text) THEN (IF cur = <<>> THEN <<>> ELSE <<cur>>)
    ELSE IF text[i] = NL THEN <<StripCR(cur)>> \o LinesFrom(text, i + 1, <<>>)
    ELSE LinesFrom(text, i + 1, Append(cur, text[i]))

lines(text) == LinesFrom(text, 1, <<>>)

\* ------------------------------------------------- str::split_whitespace
RECURSIVE TokensFrom(_, _, _)
TokensFrom(line, i, cur) ==
    IF i > Len(line) THEN (IF cur = <<>> THEN <<>> ELSE <<cur>>)
    ELSE IF IsWhitespace(line[i])
         THEN (IF cur = <<>> THEN <<>> ELSE <<cur>>) \o TokensFrom(line, i + 1, <<>>)
         ELSE TokensFrom(line, i + 1, Append(cur, line[i]))

\* line.split_whitespace().filter(|s| !s.is_empty())
split_whitespace(line) == SelectSeq(TokensFrom(line, 1, <<>>), LAMBDA s : s # <<>>)

\* ------------------------------------------------ the parse loop of fix_cr3
\* ParseLine without the test of the marker token
ParseLineAnyMarker(line) ==
    LET split == split_whitespace(line)
    IN  IF Len(split) >= 3
        THEN LET r == from_str_radix(split[3])
             IN  IF r.ok THEN <<r.val>> ELSE <<>>
        ELSE <<>>

\* One iteration of `for line in result.lines()`: what the line pushes.
ParseLine(line) ==
    LET split == split_whitespace(line)
    IN  IF Len(split) >= 3 /\ split[2] = <<"0">>
        THEN LET r == from_str_radix(split[3])
             IN  IF r.ok THEN <<r.val>> ELSE <<>>
        ELSE <<>>

\* the parse loop keeping only the first occurrence of each value
RECURSIVE ParseLoopDedup(_, _, _)
ParseLoopDedup(ls, i, acc) ==
    IF i > Len(ls) THEN acc
    ELSE LET new == ParseLine(ls[i])
             seen == \E k \in 1..Len(acc) : <<acc[k]>> = new
         IN  ParseLoopDedup(ls, i + 1, IF seen THEN acc ELSE acc \o new)

RECURSIVE ParseLoop(_, _, _)
ParseLoop(ls, i, acc) ==
    IF i > Len(ls) THEN acc
    ELSE ParseLoop(ls, i + 1, acc \o ParseLine(ls[i]))

ParseReport(text) == ParseLoop(lines(text), 1, <<>>)

\* ------------------------------------------------------------- the backend
\* pids and module bases the backend may report
Pids == {4, 20}
Bases == {<<7, 15, 15, 0, 0, 0>>}
Names == {"smss.exe"}

\* n as u64, as a numeral
RECURSIVE AsU64(_)
AsU64(n) == IF n = 0 THEN <<>> ELSE Append(AsU64(n \div 16), n % 16)

\* memprocfs::CONFIG_OPT_PROCESS_DTB = 0x2002000100000000
CONFIG_OPT_PROCESS_DTB == <<2, 0, 0, 2, 0, 0, 0, 1, 0, 0, 0, 0, 0, 0, 0, 0>>

\* a numeral padded to the 16 digits of a u64
RECURSIVE Pad16(_)
Pad16(v) == IF Len(v) >= U64Digits THEN v ELSE Pad16(<<0>> \o v)

RECURSIVE Canon(_)
Canon(v) == IF v # <<>> /\ v[1] = 0 THEN Canon(Tail(v)) ELSE v

\* bitwise or of two hex digits
RECURSIVE NibOr(_, _, _)
NibOr(a, b, bits) ==
    IF bits = 0 THEN 0
    ELSE 2 * NibOr(a \div 2, b \div 2, bits - 1)
         + (IF a % 2 = 1 \/ b % 2 = 1 THEN 1 ELSE 0)

\* a | b on u64
U64Or(a, b) ==
    LET x == Pad16(a)
        y == Pad16(b)
    IN  Canon([i \in 1..U64Digits |-> NibOr(x[i], y[i], 4)])

\* the option base alone, without the pid
ConfigKeyGlobal(p) == CONFIG_OPT_PROCESS_DTB

\* CONFIG_OPT_PROCESS_DTB | pid as u64
ConfigKey(p) == U64Or(CONFIG_OPT_PROCESS_DTB, AsU64(p))

Keys == {ConfigKey(p) : p \in Pids}

Unset == [set |-> FALSE, val |-> <<>>]
Override(v) == [set |-> TRUE, val |-> v]
StaleDtb == <<1, 10, 13, 0, 0, 0>>

\* outcomes of vfs_read("...progress_percent.txt", 3, 0)
MaxProgressLen == 4
ProgressErr == [ok |-> FALSE, len |-> 0]
NoProgress == [ok |-> FALSE, len |-> -1]
ProgressOutcomes ==
    {ProgressErr} \cup {[ok |-> TRUE, len |-> n] : n \in 0..MaxProgressLen}

\* what the backend answers to one trial: the set_config and the
\* get_module_base that may follow it
TrialOutcomes == [w : BOOLEAN, r : BOOLEAN]

\* ------------------------------------------------------- text of reports
RECURSIVE Terminated(_)
Terminated(ls) ==
    IF ls = <<>> THEN <<>> ELSE ls[1] \o <<NL>> \o Terminated(Tail(ls))

RECURSIVE SeqsUpTo(_, _)
SeqsUpTo(S, n) ==
    IF n = 0 THEN {<<>>}
    ELSE LET shorter == SeqsUpTo(S, n - 1)
         IN  shorter \cup {Append(s, x) : s \in shorter, x \in S}

Line1abc == <<"2", SP, "0", SP, "1", "a", "b", "c">>
Lineffff == <<"3", SP, "1", SP, "f", "f", "f", "f">>
Line2000 == <<"4", SP, "0", SP, "2", "0", "0", "0">>
LineBadHex == <<"5", SP, "0", SP, "z", "z">>

\* the example of the specification
ExampleReport == Terminated(<<Line1abc, Lineffff, Line2000>>)

\* the reports the backend serves to fix_cr3
ReportLines == {Line1abc, Lineffff, Line2000, LineBadHex}
Reports == {Terminated(ls) : ls \in SeqsUpTo(ReportLines, MaxLines)}

\* no second caller; last is the position of the candidate the second
\* caller wrote last with success (0: none)
PeerAbsent == [pc |-> "absent", idx |-> 0, ret |-> NoRet, last |-> 0]

\* ------------------------------------------------------------------- Init
Init ==
    /\ pc = "idle"
    /\ op = "none"
    /\ ret = NoRet
    /\ printed = <<>>
    /\ calls = <<>>
    /\ progress = NoProgress
    /\ report = <<>>
    /\ possible_dtbs = <<>>
    /\ idx = 0
    /\ pid = 0
    /\ config \in {[k \in Keys |-> Unset], [k \in Keys |-> Override(StaleDtb)]}
    /\ oracle = <<>>
    /\ config0 = config
    /\ peer = PeerAbsent

\* ------------------------------------------------------------ find_process
\* pub fn find_process(vmm, process_name) -> Option<u32>
FindProcessResult(lookup) ==
    IF lookup.ok THEN Some(lookup.val) ELSE None

FindProcessPrints(name, lookup) ==
    IF lookup.ok THEN <<>> ELSE <<<<"Failed to find", name>>>>

\* the pid the backend returns is logged as a numeral, as all its numbers are
find_process ==
    /\ pc = "idle"
    /\ \E name \in Names :
       \E lookup \in {[fn |-> "process_from_name", ok |-> FALSE, val |-> <<>>]}
                     \cup {[fn |-> "process_from_name", ok |-> TRUE, val |-> AsU64(p)] : p \in Pids} :
          /\ op' = "find_process"
          /\ calls' = <<lookup>>
          /\ ret' = FindProcessResult(lookup)
          /\ printed' = FindProcessPrints(name, lookup)
    /\ UNCHANGED <<config0, peer>>
    /\ UNCHANGED <<pc, progress, report, possible_dtbs, idx, pid, config, oracle>>

\* ------------------------------------------------------- find_base_address
\* pub fn find_base_address(vmm, process_pid, module_name) -> Option<u64>
\* the module lookup's error is not looked at
FindBaseResultUnchecked(proc, mod) ==
    IF proc.ok THEN Some(mod.val) ELSE None

FindBaseResult(proc, mod) ==
    IF proc.ok
    THEN (IF mod.ok THEN Some(mod.val) ELSE None)
    ELSE None

FindBasePrints(name, proc, mod) ==
    IF proc.ok /\ ~mod.ok THEN <<<<"Failed to find base", name>>>> ELSE <<>>

\* get_module_base is called only on a process handle that was resolved
FindBaseCalls(proc, mod) ==
    IF proc.ok THEN <<proc, mod>> ELSE <<proc>>

find_base_address ==
    /\ pc = "idle"
    /\ \E process_pid \in Pids, module_name \in Names :
       \E proc \in {[fn |-> "process_from_pid", ok |-> b, val |-> <<>>] : b \in BOOLEAN} :
       \E mod \in {[fn |-> "get_module_base", ok |-> FALSE, val |-> <<>>]}
                  \cup {[fn |-> "get_module_base", ok |-> TRUE, val |-> b] : b \in Bases} :
          /\ op' = "find_base_address"
          /\ calls' = FindBaseCalls(proc, mod)
          /\ ret' = FindBaseResult(proc, mod)
          /\ printed' = FindBasePrints(module_name, proc, mod)
    /\ UNCHANGED <<config0, peer>>
    /\ UNCHANGED <<pc, progress, report, possible_dtbs, idx, pid, config, oracle>>

\* fix_cr3 entered past its wait
CallFixCr3NoWait ==
    /\ pc = "idle"
    /\ \E p \in Pids : pid' = p
    /\ pc' = "read"
    /\ op' = "fix_cr3"
    /\ ret' = NoRet
    /\ printed' = <<>>
    /\ calls' = <<>>
    /\ progress' = NoProgress
    /\ report' = <<>>
    /\ possible_dtbs' = <<>>
    /\ idx' = 0
    /\ oracle' = <<>>
    /\ config0' = config
    /\ UNCHANGED <<config, peer>>

\* ----------------------------------------------------------------- fix_cr3
\* pub fn fix_cr3(vmm, process, target_module, pid) -> Result<bool, Box<dyn Error>>
\* entry: let mut possible_dtbs = Vec::new();
CallFixCr3 ==
    /\ pc = "idle"
    /\ \E p \in Pids : pid' = p
    /\ pc' = "poll"
    /\ op' = "fix_cr3"
    /\ ret' = NoRet
    /\ printed' = <<>>
    /\ calls' = <<>>
    /\ progress' = NoProgress
    /\ report' = <<>>
    /\ possible_dtbs' = <<>>
    /\ idx' = 0
    /\ oracle' = <<>>
    /\ config0' = config
    /\ UNCHANGED <<config, peer>>

\* if let Ok(progress_percent) = ... { if progress_percent.len() == 3 { break; } }
PROGRESS_LEN == 3

\* any successful read of at least 3 bytes ends the wait
PollCompletesAtLeast(outcome) == outcome.ok /\ outcome.len >= PROGRESS_LEN

PollCompletes(outcome) == outcome.ok /\ outcome.len = PROGRESS_LEN

\* one vfs_read of progress_percent.txt in the poll loop
PollProgress ==
    /\ pc = "poll"
    /\ \E outcome \in ProgressOutcomes :
          /\ progress' = outcome
          /\ pc' = IF PollCompletes(outcome) THEN "read" ELSE "sleep"
    /\ UNCHANGED <<config0, peer>>
    /\ UNCHANGED <<op, ret, printed, calls, report, possible_dtbs, idx, pid,
                   config, oracle>>

\* the wait is given up after a sleep
SleepGivesUp ==
    /\ pc = "sleep"
    /\ pc' = "done"
    /\ ret' = Ok(FALSE)
    /\ UNCHANGED <<config0, peer>>
    /\ UNCHANGED <<op, printed, calls, progress, report, possible_dtbs,
                   idx, pid, config, oracle>>

\* thread::sleep(500 ms), then the next iteration of the loop
Sleep ==
    /\ pc = "sleep"
    /\ pc' = "poll"
    /\ UNCHANGED <<config0, peer>>
    /\ UNCHANGED <<op, ret, printed, calls, progress, report, possible_dtbs,
                   idx, pid, config, oracle>>

\* a failed read of dtb.txt taken as an empty report
ReadDtbErrAsEmpty ==
    /\ pc = "read"
    /\ calls' = Append(calls, [fn |-> "vfs_read", ok |-> FALSE, key |-> <<>>, val |-> <<>>])
    /\ report' = <<>>
    /\ pc' = "parse"
    /\ UNCHANGED <<config0, peer>>
    /\ UNCHANGED <<op, ret, printed, progress, possible_dtbs, idx, pid,
                   config, oracle>>

\* let dtbs = vmm.vfs_read("\\misc\\procinfo\\dtb.txt", 0x80000, 0)?;
ReadDtbErr ==
    /\ pc = "read"
    /\ calls' = Append(calls, [fn |-> "vfs_read", ok |-> FALSE, key |-> <<>>, val |-> <<>>])
    /\ ret' = ErrRet
    /\ pc' = "done"
    /\ UNCHANGED <<config0, peer>>
    /\ UNCHANGED <<op, printed, progress, report, possible_dtbs, idx, pid,
                   config, oracle>>

ReadDtbOk ==
    /\ pc = "read"
    /\ \E r \in Reports :
          /\ report' = r
          /\ calls' = Append(calls, [fn |-> "vfs_read", ok |-> TRUE, key |-> <<>>, val |-> r])
    /\ pc' = "parse"
    /\ UNCHANGED <<config0, peer>>
    /\ UNCHANGED <<op, ret, printed, progress, possible_dtbs, idx, pid,
                   config, oracle>>

\* the parse loop; the backend's answers to the coming trials are fixed here
ParseDtb ==
    /\ pc = "parse"
    /\ possible_dtbs' = ParseReport(report)
    /\ idx' = 1
    /\ oracle' \in [1..Len(possible_dtbs') -> TrialOutcomes]
    /\ pc' = "trial"
    /\ UNCHANGED <<config0, peer>>
    /\ UNCHANGED <<op, ret, printed, calls, progress, report, pid, config>>

\* set_config failed and the same candidate is written again
AfterWriteRetry(ok, i) ==
    IF ok THEN [pc |-> "resolve", idx |-> i] ELSE [pc |-> "trial", idx |-> i]

\* the result of set_config is not looked at
AfterWriteUnchecked(ok, i) == [pc |-> "resolve", idx |-> i]

\* a failed set_config ends the loop
AfterWriteBreak(ok, i) ==
    IF ok THEN [pc |-> "resolve", idx |-> i]
    ELSE [pc |-> "trial", idx |-> Len(possible_dtbs) + 1]

\* if vmm.set_config(..).is_ok() { <resolve> } <else: the next candidate>
AfterWrite(ok, i) ==
    IF ok THEN [pc |-> "resolve", idx |-> i] ELSE [pc |-> "trial", idx |-> i + 1]

\* a successful resolution does not end the loop
AfterResolveKeepGoing(ok, i) == [pc |-> "trial", ret |-> NoRet, idx |-> i + 1]

\* a failed resolution tries the same candidate again
AfterResolveRetry(ok, i) ==
    IF ok THEN [pc |-> "done", ret |-> Ok(TRUE), idx |-> i]
    ELSE [pc |-> "trial", ret |-> NoRet, idx |-> i]

\* if process.get_module_base(..).is_ok() { return Ok(true); } <else: the next candidate>
AfterResolve(ok, i) ==
    IF ok THEN [pc |-> "done", ret |-> Ok(TRUE), idx |-> i]
    ELSE [pc |-> "trial", ret |-> NoRet, idx |-> i + 1]

\* vmm.set_config(CONFIG_OPT_PROCESS_DTB | pid as u64, *dtb)
TrialWrite ==
    /\ pc = "trial"
    /\ idx <= Len(possible_dtbs)
    /\ LET dtb == possible_dtbs[idx]
           key == ConfigKey(pid)
           ok == oracle[idx].w
           then == AfterWrite(ok, idx)
       IN  /\ calls' = Append(calls, [fn |-> "set_config", ok |-> ok, key |-> key, val |-> dtb])
           /\ config' = IF ok THEN [config EXCEPT ![key] = Override(dtb)] ELSE config
           /\ pc' = then.pc
           /\ idx' = then.idx
    /\ UNCHANGED <<config0, peer>>
    /\ UNCHANGED <<op, ret, printed, progress, report, possible_dtbs, pid, oracle>>

\* process.get_module_base(target_module); the log keeps the override that
\* was in effect for the pid when the resolution ran
TrialResolve ==
    /\ pc = "resolve"
    /\ LET ok == oracle[idx].r
           then == AfterResolve(ok, idx)
       IN  /\ calls' = Append(calls, [fn |-> "get_module_base", ok |-> ok, key |-> <<>>,
                                   val |-> config[ConfigKey(pid)].val])
           /\ ret' = then.ret
           /\ pc' = then.pc
           /\ idx' = then.idx
    /\ UNCHANGED <<config0, peer>>
    /\ UNCHANGED <<op, printed, progress, report, possible_dtbs, pid, config, oracle>>

\* running out of candidates reported as an error
ExhaustedResultErr == ErrRet

\* Ok(false)
ExhaustedResult == Ok(FALSE)

\* the loop is over and the override is put back to what it was at entry
ExhaustedReverts ==
    /\ pc = "trial"
    /\ idx > Len(possible_dtbs)
    /\ ret' = ExhaustedResult
    /\ pc' = "done"
    /\ config' = [config EXCEPT ![ConfigKey(pid)] = config0[ConfigKey(pid)]]
    /\ UNCHANGED <<config0, peer>>
    /\ UNCHANGED <<op, printed, calls, progress, report, possible_dtbs, idx,
                   pid, oracle>>

\* the loop is over
Exhausted ==
    /\ pc = "trial"
    /\ idx > Len(possible_dtbs)
    /\ ret' = ExhaustedResult
    /\ pc' = "done"
    /\ UNCHANGED <<config0, peer>>
    /\ UNCHANGED <<op, printed, calls, progress, report, possible_dtbs, idx,
                   pid, config, oracle>>

\* the first caller is in its trial loop
InTrialLoop == op = "fix_cr3" /\ pc \in {"trial", "resolve"}

FixCr3Step ==
    \/ PollProgress
    \/ Sleep
    \/ ReadDtbErr
    \/ ReadDtbOk
    \/ ParseDtb
    \/ TrialWrite
    \/ TrialResolve
    \/ Exhausted

Next ==
    \/ find_process
    \/ find_base_address
    \/ CallFixCr3
    \/ FixCr3Step

Spec == Init /\ [][Next]_vars

\* a call of fix_cr3 that is in its poll loop keeps running: the thread is
\* blocked by nothing but its own sleep
PollFairSpec == Spec /\ WF_vars(PollProgress) /\ WF_vars(Sleep)

\* the control position of fix_cr3
Ctl == <<pc, idx>>

\* The steps of fix_cr3 as they move the control position: a step of Next is
\* a FixCr3Step exactly when it is a FixCr3Ctl step, and the two are enabled
\* in the same states.
PollProgressCtl ==
    /\ pc = "poll"
    /\ pc' \in {"read", "sleep"}
    /\ idx' = idx

SleepCtl ==
    /\ pc = "sleep"
    /\ pc' = "poll"
    /\ idx' = idx

ReadDtbCtl ==
    /\ pc = "read"
    /\ pc' \in {"parse", "done"}
    /\ idx' = idx

ParseDtbCtl ==
    /\ pc = "parse"
    /\ pc' = "trial"
    /\ idx' = 1

TrialWriteCtl ==
    /\ pc = "trial"
    /\ idx <= Len(possible_dtbs)
    /\ \E ok \in BOOLEAN :
          /\ pc' = AfterWrite(ok, idx).pc
          /\ idx' = AfterWrite(ok, idx).idx

TrialResolveCtl ==
    /\ pc = "resolve"
    /\ \E ok \in BOOLEAN :
          /\ pc' = AfterResolve(ok, idx).pc
          /\ idx' = AfterResolve(ok, idx).idx

ExhaustedCtl ==
    /\ pc = "trial"
    /\ idx > Len(possible_dtbs)
    /\ pc' = "done"
    /\ idx' = idx

FixCr3Ctl ==
    \/ PollProgressCtl
    \/ SleepCtl
    \/ ReadDtbCtl
    \/ ParseDtbCtl
    \/ TrialWriteCtl
    \/ TrialResolveCtl
    \/ ExhaustedCtl

\* the thread that runs fix_cr3 keeps running and every backend call it makes
\* returns: it does not stay for ever at a statement it can execute
FairSpec == Spec /\ WF_Ctl(FixCr3Ctl)

\* ------------------------------------------- a second caller of fix_cr3
\* A second call fix_cr3(vmm, process, target_module, pid) on the same pid,
\* made from another thread.  It runs the same code; nothing in fix_cr3
\* orders its steps against those of the first call.  It is modelled from
\* its trial loop on, where it touches the shared override, and it has
\* parsed the same report as the first caller.
PeerEnter ==
    /\ InTrialLoop
    /\ peer.pc = "absent"
    /\ peer' = [pc |-> "trial", idx |-> 1, ret |-> NoRet, last |-> 0]
    /\ UNCHANGED <<pc, op, ret, printed, calls, progress, report, possible_dtbs,
                   idx, pid, config, oracle, config0>>

\* the second caller's set_config
PeerWrite ==
    /\ peer.pc = "trial"
    /\ peer.idx <= Len(possible_dtbs)
    /\ \E ok \in BOOLEAN :
          LET then == AfterWrite(ok, peer.idx)
          IN  /\ config' = IF ok
                           THEN [config EXCEPT ![ConfigKey(pid)] = Override(possible_dtbs[peer.idx])]
                           ELSE config
              /\ peer' = [peer EXCEPT !.pc = then.pc, !.idx = then.idx,
                                      !.last = IF ok THEN peer.idx ELSE peer.last]
    /\ UNCHANGED <<pc, op, ret, printed, calls, progress, report, possible_dtbs,
                   idx, pid, oracle, config0>>

\* the second caller's get_module_base
PeerResolve ==
    /\ peer.pc = "resolve"
    /\ \E ok \in BOOLEAN :
          LET then == AfterResolve(ok, peer.idx)
          IN  peer' = [peer EXCEPT !.pc = then.pc, !.idx = then.idx, !.ret = then.ret]
    /\ UNCHANGED <<pc, op, ret, printed, calls, progress, report, possible_dtbs,
                   idx, pid, config, oracle, config0>>

\* the second caller runs out of candidates
PeerExhausted ==
    /\ peer.pc = "trial"
    /\ peer.idx > Len(possible_dtbs)
    /\ peer' = [peer EXCEPT !.pc = "done", !.ret = ExhaustedResult]
    /\ UNCHANGED <<pc, op, ret, printed, calls, progress, report, possible_dtbs,
                   idx, pid, config, oracle, config0>>

PeerStep ==
    \/ PeerEnter
    \/ PeerWrite
    \/ PeerResolve
    \/ PeerExhausted

\* the reports of the two-caller runs: qualifying lines only
MaxRaceLines == 2
RaceReports == {Terminated(ls) : ls \in SeqsUpTo({Line1abc, Line2000}, MaxRaceLines)}

\* the first caller has polled and read its report, and no second caller
\* has reached its trial loop yet
RaceInit ==
    /\ pc = "parse"
    /\ op = "fix_cr3"
    /\ ret = NoRet
    /\ printed = <<>>
    /\ report \in RaceReports
    /\ calls = <<[fn |-> "vfs_read", ok |-> TRUE, key |-> <<>>, val |-> report]>>
    /\ progress = [ok |-> TRUE, len |-> PROGRESS_LEN]
    /\ possible_dtbs = <<>>
    /\ idx = 0
    /\ pid \in Pids
    /\ config \in {[k \in Keys |-> Unset], [k \in Keys |-> Override(StaleDtb)]}
    /\ oracle = <<>>
    /\ config0 = config
    /\ peer = PeerAbsent

RaceNext ==
    \/ ParseDtb
    \/ TrialWrite
    \/ TrialResolve
    \/ Exhausted
    \/ PeerStep

\* two calls of fix_cr3 on one pid, their trial loops interleaved in every way
RaceSpec == RaceInit /\ [][RaceNext]_vars

\* ---------------------------------------------- the parser on its own
\* Report texts for the parser: every text of at most MaxLen characters of
\* ParseAlphabet, every report of at most MaxParseLines lines of ParseLines,
\* and the example of the specification.
ParseAlphabet == {"0", "a", "g", "+", SP, NL}

LineTwoTokens == <<"5", SP, "0">>
LineExtraTokens == <<"6", SP, "0", SP, "1", "F", SP, "9", SP, "z", "z">>
LineBlanks == <<TAB, "7", SP, SP, "0", SP, TAB, SP, "0", "0", "f", "f", SP, CR>>
LinePlus == <<"8", SP, "0", SP, "+", "1", "f">>
LinePrefixed == <<"9", SP, "0", SP, "0", "x", "1", "0">>
LineMinus == <<"e", SP, "0", SP, "-", "1">>
LineMarker00 == <<"d", SP, "0", "0", SP, "1", "f">>
LineMax == <<"b", SP, "0", SP>> \o [i \in 1..U64Digits |-> "f"]
LineOverflow == <<"a", SP, "0", SP, "1">> \o [i \in 1..U64Digits |-> "0"]
LineLeadingZero == <<"c", SP, "0", SP>> \o [i \in 1..U64Digits |-> "0"] \o <<"1">>

ParseLines ==
    ReportLines \cup
    {<<>>, LineTwoTokens, LineExtraTokens, LineBlanks, LinePlus, LinePrefixed,
     LineMinus, LineMarker00, LineMax, LineOverflow, LineLeadingZero}

ParseTexts ==
    SeqsUpTo(ParseAlphabet, MaxLen)
    \cup {Terminated(ls) : ls \in SeqsUpTo(ParseLines, MaxParseLines)}
    \cup {ExampleReport}

\* fix_cr3 about to parse a report it has just read
ParseInit ==
    /\ pc = "parse"
    /\ op = "fix_cr3"
    /\ ret = NoRet
    /\ printed = <<>>
    /\ report \in ParseTexts
    /\ calls = <<[fn |-> "vfs_read", ok |-> TRUE, key |-> <<>>, val |-> report]>>
    /\ progress = [ok |-> TRUE, len |-> PROGRESS_LEN]
    /\ possible_dtbs = <<>>
    /\ idx = 0
    /\ pid = 4
    /\ config = [k \in Keys |-> Unset]
    /\ oracle = <<>>
    /\ config0 = config
    /\ peer = PeerAbsent

ParseNext == ParseDtb

ParseSpec == ParseInit /\ [][ParseNext]_vars

\* ------------------------------------------------------------------- C4
\* A token is a well-formed base-16 u64 when, after one optional leading
\* "+", it is a non-empty string of hex digits with at most 16 digits after
\* its leading zeros.
HexBody(tok) == IF tok # <<>> /\ tok[1] = "+" THEN Tail(tok) ELSE tok

LeadingZeros(body) ==
    Cardinality({i \in 1..Len(body) : \A j \in 1..i : body[j] = "0"})

WellFormedHex(tok) ==
    LET body == HexBody(tok)
    IN  /\ body # <<>>
        /\ \A i \in 1..Len(body) : IsHexDigit(body[i])
        /\ Len(body) - LeadingZeros(body) <= U64Digits

\* the integer a well-formed token denotes
HexValueOf(tok) ==
    LET body == HexBody(tok)
        z == LeadingZeros(body)
    IN  [i \in 1..(Len(body) - z) |-> HexTable[body[z + i]]]

RECURSIVE NatOf(_)
NatOf(v) == IF v = <<>> THEN 0 ELSE 16 * NatOf(SubSeq(v, 1, Len(v) - 1)) + v[Len(v)]

Qualifies(line) ==
    LET t == split_whitespace(line)
    IN  /\ Len(t) >= 3
        /\ t[2] = <<"0">>
        /\ WellFormedHex(t[3])

\* C4: parsing is an order-preserving per-line filter.  The candidates are
\* exactly the integers of the third tokens of the qualifying lines (at
\* least three tokens, second token "0", third token a well-formed base-16
\* u64), one per qualifying line, in line order; every other line gives
\* nothing and does not stop the lines after it.  The example report gives
\* [0x1abc, 0x2000].
C4_ParseIsLineFilter ==
    pc = "trial" =>
        LET ls == lines(report)
            Q == {i \in 1..Len(ls) : Qualifies(ls[i])}
        IN  /\ Len(possible_dtbs) = Cardinality(Q)
            /\ \A i \in Q :
                  possible_dtbs[Cardinality({q \in Q : q <= i})]
                      = HexValueOf(split_whitespace(ls[i])[3])
            /\ report = ExampleReport =>
                  /\ Len(possible_dtbs) = 2
                  /\ NatOf(possible_dtbs[1]) = 6844
                  /\ NatOf(possible_dtbs[2]) = 8192

\* the example report parsed: its middle line skipped, the line after it kept
C4_Witness ==
    /\ pc = "trial"
    /\ report = ExampleReport
    /\ possible_dtbs = <<<<1, 10, 11, 12>>, <<2, 0, 0, 0>>>>

\* ------------------------------------------------- reading the call log
InFixCr3 == op = "fix_cr3"
Returned == InFixCr3 /\ pc = "done"

\* dtb.txt was read successfully
ReportRead ==
    /\ InFixCr3
    /\ calls # <<>>
    /\ calls[1].fn = "vfs_read"
    /\ calls[1].ok

IsWrite(c) == c.fn = "set_config"
IsResolve(c) == c.fn = "get_module_base"
Writes == SelectSeq(calls, IsWrite)
Resolves == SelectSeq(calls, IsResolve)

NumCandidates == Len(possible_dtbs)

\* candidate j passes both checks: its write and the resolution after it
Succeeds(j) == oracle[j].w /\ oracle[j].r

ExactlyOneSucceeds(k) ==
    /\ k \in 1..NumCandidates
    /\ \A j \in 1..NumCandidates : Succeeds(j) <=> j = k

\* ------------------------------------------------------------------- C1
\* C1: when exactly the k-th of the N candidates passes both checks, fix_cr3
\* has, on return, written candidates 1..k in report order under the pid's
\* key and no other, returned Ok(true), and left candidate k as the pid's
\* override.
C1_FirstWorkingCandidateCommitted ==
    \A k \in 1..NumCandidates :
        (Returned /\ ReportRead /\ ExactlyOneSucceeds(k)) =>
            /\ Len(Writes) = k
            /\ \A j \in 1..k :
                  /\ Writes[j].val = possible_dtbs[j]
                  /\ Writes[j].key = ConfigKey(pid)
            /\ ret = Ok(TRUE)
            /\ config[ConfigKey(pid)] = Override(possible_dtbs[k])

\* three candidates, only the second works, the call has returned
C1_Witness ==
    /\ Returned
    /\ NumCandidates = 3
    /\ ExactlyOneSucceeds(2)
    /\ Len(Writes) = 2

\* ------------------------------------------------------------------- C2
\* C2: when none of the N candidates passes both checks, fix_cr3 has, on
\* return, made exactly N configuration writes, the j-th of candidate j, and
\* returned Ok(false).
C2_AllTriedThenNotFixed ==
    (Returned /\ ReportRead /\ \A j \in 1..NumCandidates : ~Succeeds(j)) =>
        /\ Len(Writes) = NumCandidates
        /\ \A j \in 1..NumCandidates : Writes[j].val = possible_dtbs[j]
        /\ ret = Ok(FALSE)

\* three candidates: a refused write, then two accepted writes that do not
\* resolve the module
C2_Witness ==
    /\ Returned
    /\ NumCandidates = 3
    /\ ~oracle[1].w
    /\ oracle[2].w /\ ~oracle[2].r
    /\ oracle[3].w /\ ~oracle[3].r
    /\ ret = Ok(FALSE)

\* ------------------------------------------------------------------- C3
NoQualifyingLine(text) ==
    LET ls == lines(text)
    IN  \A i \in 1..Len(ls) : ~Qualifies(ls[i])

\* C3: when the report read has no qualifying line, fix_cr3 makes no
\* configuration write and no module resolution, and returns Ok(false).
C3_NoCandidatesNoWrites ==
    (ReportRead /\ NoQualifyingLine(report)) =>
        /\ Writes = <<>>
        /\ Resolves = <<>>
        /\ pc \in {"parse", "trial", "done"}
        /\ pc = "done" => ret = Ok(FALSE)

\* a report of two lines, neither qualifying, and the call has returned
C3_Witness ==
    /\ Returned
    /\ ReportRead
    /\ report = Terminated(<<Lineffff, LineBadHex>>)
    /\ ret = Ok(FALSE)

\* ------------------------------------------------------------------- C5
\* C5: fix_cr3 returns Err exactly when its read of dtb.txt failed; that
\* read comes after a completing poll and is the only backend call made, so
\* no configuration write and no module resolution was attempted.  Refused
\* writes and failed resolutions never give Err.
C5_ErrIffReportReadFails ==
    InFixCr3 =>
        /\ ret \in {NoRet, ErrRet, Ok(TRUE), Ok(FALSE)}
        /\ ret = ErrRet <=>
              \E i \in 1..Len(calls) : calls[i].fn = "vfs_read" /\ ~calls[i].ok
        /\ ret = ErrRet =>
              /\ pc = "done"
              /\ Len(calls) = 1
              /\ progress = [ok |-> TRUE, len |-> 3]

\* the read of dtb.txt failed and the call has returned Err
C5_Witness ==
    /\ Returned
    /\ ret = ErrRet
    /\ calls[1].fn = "vfs_read"
    /\ ~calls[1].ok

\* ------------------------------------------------------------------- C6
Waiting == pc \in {"poll", "sleep"}

\* C6: the wait is left only by a progress read that succeeds with exactly
\* 3 bytes; every other outcome of a read leads to the sleep, and the sleep
\* to another read.
C6_OnlyThreeBytesCompletes ==
    [][/\ (Waiting /\ ~Waiting') =>
              /\ pc = "poll"
              /\ progress' = [ok |-> TRUE, len |-> 3]
              /\ pc' = "read"
       /\ (pc = "poll" /\ progress' # [ok |-> TRUE, len |-> 3]) => pc' = "sleep"
       /\ pc = "sleep" => pc' = "poll"]_vars

\* polling again after a successful read of 4 bytes
C6_Witness ==
    /\ pc = "poll"
    /\ progress = [ok |-> TRUE, len |-> 4]

\* ------------------------------------------------------------------- C7
ThreeBytes == progress.ok /\ progress.len = 3

\* C7: as long as no progress read has returned exactly 3 bytes, a call of
\* fix_cr3 has not returned, has not read dtb.txt, has not written the
\* configuration and is polling or sleeping; every poll that does not return
\* 3 bytes is followed by a sleep and every sleep by another poll.  So in an
\* execution in which no progress read ever returns exactly 3 bytes the call
\* polls for ever and never returns.
C7_NoTimeout ==
    /\ [](InFixCr3 /\ ~ThreeBytes => ret = NoRet /\ calls = <<>> /\ Waiting)
    /\ (pc = "poll") ~> (pc = "sleep" \/ ThreeBytes)
    /\ (pc = "sleep") ~> (pc = "poll")

\* a poll about to be made after a failed read and a sleep
C7_Witness ==
    /\ pc = "poll"
    /\ progress = ProgressErr
    /\ ret = NoRet

\* ------------------------------------------------------------------- C8
\* a candidate that a line of the report yields
FromReport(v) ==
    \E i \in 1..Len(lines(report)) :
        /\ Qualifies(lines(report)[i])
        /\ HexValueOf(split_whitespace(lines(report)[i])[3]) = v

\* C8: when fix_cr3 returns Ok(true), its last two backend calls are a
\* configuration write of a candidate from the report, which succeeded, and
\* a module resolution, which succeeded, and that candidate is the pid's
\* override; when it returns Ok(false), no candidate passed both checks.
C8_TrustedOnlyAfterBothChecks ==
    /\ (InFixCr3 /\ ret = Ok(TRUE)) =>
          LET n == Len(calls)
          IN  /\ n >= 3
              /\ IsResolve(calls[n]) /\ calls[n].ok
              /\ IsWrite(calls[n - 1]) /\ calls[n - 1].ok
              /\ FromReport(calls[n - 1].val)
              /\ calls[n - 1].key = ConfigKey(pid)
              /\ config[ConfigKey(pid)] = Override(calls[n - 1].val)
    /\ (InFixCr3 /\ ret = Ok(FALSE)) =>
          /\ \A j \in 1..NumCandidates : ~Succeeds(j)
          /\ \A i \in 1..Len(calls) : IsResolve(calls[i]) => ~calls[i].ok

\* Ok(true) from a report in which a later candidate would have worked too,
\* after an earlier one was written and failed to resolve
C8_Witness ==
    /\ Returned
    /\ ret = Ok(TRUE)
    /\ NumCandidates = 3
    /\ oracle[1].w /\ ~oracle[1].r
    /\ Succeeds(2)
    /\ Succeeds(3)

\* ------------------------------------------------------------------- C9
\* C9: find_process and find_base_address return None or Some, never an
\* error; they return Some exactly when every backend lookup they made
\* succeeded, and then the value is the one the last lookup returned.
C9_LookupsNeverPropagate ==
    /\ op = "find_process" =>
          /\ Len(calls) = 1
          /\ calls[1].fn = "process_from_name"
          /\ ret = IF calls[1].ok THEN Some(calls[1].val) ELSE None
    /\ op = "find_base_address" =>
          /\ calls[1].fn = "process_from_pid"
          /\ ret.tag \in {"Some", "None"}
          /\ ret.tag = "Some" <=> \A i \in 1..Len(calls) : calls[i].ok
          /\ ret.tag = "Some" =>
                /\ Len(calls) = 2
                /\ calls[2].fn = "get_module_base"
                /\ ret.val = calls[2].val

\* find_base_address returned None because the module lookup failed
C9_Witness ==
    /\ op = "find_base_address"
    /\ Len(calls) = 2
    /\ calls[1].ok
    /\ ~calls[2].ok
    /\ ret = None

\* ------------------------------------------------------------------ C10
\* C10: in the trial loop a refused write is followed by the write of the
\* next candidate, never by a resolution or a second write of the same
\* candidate; an accepted write is followed by exactly one resolution; a
\* resolution is made nowhere else.  The j-th write is of candidate j.
C10_OneWriteOneResolvePerCandidate ==
    InFixCr3 =>
        /\ \A i \in 1..Len(calls) :
              /\ (IsWrite(calls[i]) /\ ~calls[i].ok /\ i < Len(calls)) =>
                    IsWrite(calls[i + 1])
              /\ (IsWrite(calls[i]) /\ calls[i].ok) =>
                    IF i < Len(calls) THEN IsResolve(calls[i + 1])
                    ELSE pc = "resolve"
              /\ IsResolve(calls[i]) =>
                    /\ i > 1
                    /\ IsWrite(calls[i - 1])
                    /\ calls[i - 1].ok
        /\ Len(Writes) <= NumCandidates
        /\ \A j \in 1..Len(Writes) : Writes[j].val = possible_dtbs[j]
        /\ pc = "trial" => Len(Writes) = idx - 1
        /\ pc = "resolve" => Len(Writes) = idx
        /\ Len(Resolves) <= Len(Writes)

\* the same root on two lines: its first write was refused, and the loop is
\* at the second occurrence with no resolution made
C10_Witness ==
    /\ InFixCr3
    /\ pc = "trial"
    /\ idx = 2
    /\ NumCandidates >= 2
    /\ possible_dtbs[1] = possible_dtbs[2]
    /\ Len(Writes) = 1
    /\ ~Writes[1].ok
    /\ Resolves = <<>>

\* ------------------------------------------------------------------ C11
\* the positions of the candidates whose write the backend accepts
AcceptedPositions == {j \in 1..NumCandidates : oracle[j].w}

LastAccepted == CHOOSE j \in AcceptedPositions : \A i \in AcceptedPositions : i <= j

\* C11: fix_cr3 never reverts.  When it returns Ok(false), the pid's
\* override is the last candidate, in report order, whose write was accepted
\* (a candidate that failed the resolution), and when no write was accepted
\* it is what it was when fix_cr3 was entered.
C11_OverrideLeftDirty ==
    (Returned /\ ret = Ok(FALSE)) =>
        IF AcceptedPositions # {}
        THEN /\ config[ConfigKey(pid)] = Override(possible_dtbs[LastAccepted])
             /\ ~oracle[LastAccepted].r
        ELSE config[ConfigKey(pid)] = config0[ConfigKey(pid)]

\* Ok(false) with the second of three candidates left as the override: its
\* write was accepted, the third's was refused
C11_Witness ==
    /\ Returned
    /\ ret = Ok(FALSE)
    /\ NumCandidates = 3
    /\ oracle[2].w
    /\ ~oracle[3].w
    /\ config0[ConfigKey(pid)] = Override(StaleDtb)
    /\ config[ConfigKey(pid)] = Override(possible_dtbs[2])
    /\ possible_dtbs[2] # StaleDtb

\* ------------------------------------------------------------------ C12
\* The key spelled out: the high dword is that of the option, 0x20020001,
\* the low dword is the pid.
PidDword(p) == [i \in 1..8 |-> (p \div (16 ^ (8 - i))) % 16]
ExpectedKey(p) == <<2, 0, 0, 2, 0, 0, 0, 1>> \o PidDword(p)

\* pids on which the key is computed: small ones, and ones that fill the
\* low dword as far as a 31-bit integer goes
MaxPid == 40
PidSamples == Pids \cup 0..MaxPid \cup {255, 256, 65535, 65536, 2147483647}

KeysDistinct ==
    /\ \A p \in PidSamples : ConfigKey(p) = ExpectedKey(p)
    /\ \A p, q \in PidSamples : p # q => ConfigKey(p) # ConfigKey(q)

\* C12: every configuration write of fix_cr3(.., pid) has the key
\* CONFIG_OPT_PROCESS_DTB | pid, distinct pids have distinct keys, and every
\* entry of the configuration store under another key is what it was when
\* fix_cr3 was entered.
C12_OnlyThePidsKeyWritten ==
    /\ KeysDistinct
    /\ InFixCr3 =>
          /\ \A j \in 1..Len(Writes) : Writes[j].key = ExpectedKey(pid)
          /\ \A k \in DOMAIN config :
                k # ExpectedKey(pid) => config[k] = config0[k]

\* fix_cr3 on pid 4 has returned after changing the override of pid 4; the
\* override of pid 20 is the one it found
C12_Witness ==
    /\ Returned
    /\ pid = 4
    /\ config0[ExpectedKey(4)] = Override(StaleDtb)
    /\ config[ExpectedKey(4)] # Override(StaleDtb)
    /\ config[ExpectedKey(20)] = Override(StaleDtb)

\* ------------------------------------------------------------------ C13
\* the second caller has changed the override
PeerWrote == peer.last > 0

\* C13: fix_cr3 takes no lock on the pid's override.  While no other caller
\* has written it, every module resolution of a caller runs under the
\* candidate that caller wrote just before, and Ok(true) leaves that
\* candidate as the override.  With a second caller interleaved, a
\* resolution runs under one of the two callers' candidates, and the state
\* C13_Witness is reachable.
C13_NoLockOnOverride ==
    InFixCr3 =>
        /\ \A i \in 1..Len(calls) :
              IsResolve(calls[i]) =>
                 \/ calls[i].val = calls[i - 1].val
                 \/ PeerWrote /\ calls[i].val \in {possible_dtbs[j] : j \in 1..peer.last}
        /\ (pc = "resolve" /\ ~PeerWrote) =>
              config[ConfigKey(pid)] = Override(possible_dtbs[idx])
        /\ (ret = Ok(TRUE) /\ ~PeerWrote) =>
              config[ConfigKey(pid)] = Override(possible_dtbs[idx])

\* the first caller has returned Ok(true); its resolution ran under the
\* second caller's candidate, which is also the override left in effect,
\* and not under the candidate it wrote itself
C13_Witness ==
    /\ Returned
    /\ ret = Ok(TRUE)
    /\ PeerWrote
    /\ calls[Len(calls)].val = possible_dtbs[peer.last]
    /\ calls[Len(calls)].val # calls[Len(calls) - 1].val
    /\ config[ConfigKey(pid)] = Override(possible_dtbs[peer.last])
    /\ config[ConfigKey(pid)] # Override(possible_dtbs[idx])

\* ------------------------------------------------------------------ C14
QualifyingLines(text) ==
    LET ls == lines(text)
    IN  {i \in 1..Len(ls) : Qualifies(ls[i])}

InTrials == InFixCr3 /\ (pc \in {"trial", "resolve"} \/ (pc = "done" /\ ReportRead))

\* C14: fix_cr3 performs its phases in order.  dtb.txt is not read before a
\* progress read has returned exactly 3 bytes; it is read exactly once, as
\* the first backend call, and not again during the trials; no configuration
\* write and no module resolution happens before that read has succeeded and
\* the report has been parsed into one candidate per qualifying line; and
\* from the first trial on neither the report nor the candidate sequence
\* changes.
C14_PhasesInOrder ==
    /\ [](InFixCr3 =>
            /\ calls # <<>> => ThreeBytes /\ calls[1].fn = "vfs_read"
            /\ pc \in {"parse", "trial", "resolve"} => Len(calls) >= 1
            /\ \A i \in 2..Len(calls) : calls[i].fn # "vfs_read"
            /\ Len(calls) >= 2 =>
                  /\ calls[1].ok
                  /\ calls[1].val = report
                  /\ pc \in {"trial", "resolve", "done"}
                  /\ Len(possible_dtbs) = Cardinality(QualifyingLines(report)))
    /\ [][InTrials /\ InFixCr3' =>
            /\ possible_dtbs' = possible_dtbs
            /\ report' = report
            /\ InTrials']_vars

\* a trial under way: the report was read once, after a 3-byte progress
\* read, and two candidates from it have been written
C14_Witness ==
    /\ InFixCr3
    /\ pc = "resolve"
    /\ ThreeBytes
    /\ Len(Writes) = 2
    /\ Len(SelectSeq(calls, LAMBDA c : c.fn = "vfs_read")) = 1
    /\ Len(possible_dtbs) = 3

\* ------------------------------------------------------------------ C15
\* what each line of a text yields: its value when it qualifies, else nothing
LineYields(text) ==
    LET ls == lines(text)
        Yield(line) ==
            IF Qualifies(line) THEN <<HexValueOf(split_whitespace(line)[3])>> ELSE <<>>
    IN  [i \in 1..Len(ls) |-> Yield(ls[i])]

\* the position in the call log of the write of candidate j
WriteIndex(j) ==
    CHOOSE n \in 1..Len(calls) :
        /\ IsWrite(calls[n])
        /\ Cardinality({m \in 1..n : IsWrite(calls[m])}) = j

\* positions i < j of the candidate sequence holding one value
Repeats(i, j) ==
    /\ i \in 1..NumCandidates
    /\ j \in 1..NumCandidates
    /\ i < j
    /\ possible_dtbs[i] = possible_dtbs[j]

\* C15: the candidate sequence is not deduplicated.  A value that m
\* qualifying lines of the report yield occurs m times in the candidate
\* sequence, the n-th qualifying line giving the n-th candidate; and when an
\* earlier occurrence of a value has been tried and has failed, the loop, on
\* reaching a later occurrence, writes the same value again under the pid's
\* key and, when the write is accepted, resolves the module under it again.
C15_DuplicatesKeptAndRetried ==
    (InFixCr3 /\ ReportRead /\ pc \in {"trial", "resolve", "done"}) =>
        LET Y == LineYields(report)
            Q == {q \in DOMAIN Y : Y[q] # <<>>}
        IN  /\ \A q \in Q :
                  /\ <<possible_dtbs[Cardinality({x \in Q : x <= q})]>> = Y[q]
                  /\ Cardinality({k \in 1..NumCandidates : <<possible_dtbs[k]>> = Y[q]})
                        = Cardinality({x \in Q : Y[x] = Y[q]})
            /\ \A i, j \in 1..NumCandidates :
                  (Repeats(i, j) /\ Len(Writes) >= j) =>
                      /\ ~Succeeds(i)
                      /\ Writes[i].val = possible_dtbs[i]
                      /\ Writes[j].val = possible_dtbs[i]
                      /\ Writes[j].key = ConfigKey(pid)
                      /\ (oracle[j].w /\ (pc = "done" \/ idx > j)) =>
                            /\ WriteIndex(j) < Len(calls)
                            /\ IsResolve(calls[WriteIndex(j) + 1])
                            /\ calls[WriteIndex(j) + 1].val = possible_dtbs[i]
            /\ ret = Ok(FALSE) => Len(Writes) = NumCandidates

\* the report repeats one qualifying line three times; all three occurrences
\* were written and resolved under, and none worked
C15_Witness ==
    /\ Returned
    /\ report = Terminated(<<Line1abc, Line1abc, Line1abc>>)
    /\ possible_dtbs = <<<<1, 10, 11, 12>>, <<1, 10, 11, 12>>, <<1, 10, 11, 12>>>>
    /\ Len(Writes) = 3
    /\ Len(Resolves) = 3
    /\ ret = Ok(FALSE)

\* ------------------------------------------------------------------ C16
IsPrefix(a, b) == Len(a) <= Len(b) /\ SubSeq(b, 1, Len(a)) = a

\* the first n characters of a text
Truncated(text, n) == SubSeq(text, 1, n)

\* C16: for every report text and every truncation of it to a prefix, the
\* candidate sequence parsed from the truncated text is a prefix of the
\* candidate sequence parsed from the full text.
C16_TruncationYieldsPrefix ==
    pc = "trial" =>
        \A n \in 0..Len(report) :
            IsPrefix(ParseReport(Truncated(report, n)), possible_dtbs)

\* ------------------------------------------------------------------ C17
\* C17: find_base_address has logged a diagnostic whenever it returns None,
\* both when the pid did not resolve to a process and when the module base
\* did not resolve in that process.
C17_EveryFailureLogged ==
    (op = "find_base_address" /\ ret = None) => printed # <<>>

\* ------------------------------------------- the fairness of FairSpec
\* FairSpec states its fairness on FixCr3Ctl.  Under Spec this is weak
\* fairness of FixCr3Step: the steps are the same and so are the states in
\* which they are enabled.
FixCr3CtlIsFixCr3Step ==
    [][(FixCr3Step <=> FixCr3Ctl) /\ (FixCr3Step => Ctl' # Ctl)]_vars

FixCr3CtlEnabled ==
    (InFixCr3 /\ pc # "done") <=> ENABLED <<FixCr3Ctl>>_Ctl

\* ------------------------------------------------------------------ C18
\* what is left of a call: the phases still to run, then the trial steps
\* still possible
Phase ==
    CASE pc = "read" -> 3
      [] pc = "parse" -> 2
      [] pc \in {"trial", "resolve"} -> 1
      [] OTHER -> 0

Remaining ==
    CASE pc = "trial" -> 2 * (NumCandidates + 1 - idx) + 1
      [] pc = "resolve" -> 2 * (NumCandidates + 1 - idx)
      [] OTHER -> 0

\* C18: once a progress read has returned exactly 3 bytes, fix_cr3
\* terminates.  From then on every step it takes moves it to a later phase or
\* leaves fewer trial steps, it reads the report once and makes at most one
\* write and one resolution per candidate, and it returns.  Under fairness,
\* when from some point on every progress read returns exactly 3 bytes, every
\* call of fix_cr3 returns Ok(true), Ok(false) or Err.
C18_Terminates ==
    /\ [](InFixCr3 /\ ThreeBytes =>
            /\ pc \in {"read", "parse", "trial", "resolve", "done"}
            /\ Len(SelectSeq(calls, LAMBDA c : c.fn = "vfs_read")) <= 1
            /\ Len(Writes) <= NumCandidates
            /\ Len(Resolves) <= Len(Writes)
            /\ Remaining >= 0)
    /\ [][(InFixCr3 /\ ThreeBytes) =>
            \/ Phase' < Phase
            \/ Phase' = Phase /\ Remaining' < Remaining]_vars
    /\ (InFixCr3 /\ ThreeBytes) ~> Returned
    /\ (<>[][pc = "poll" => ThreeBytes']_vars) =>
           [](InFixCr3 => <>(Returned /\ ret \in {Ok(TRUE), Ok(FALSE), ErrRet}))

\* a call that slept, then got its 3 bytes, tried three candidates and
\* returned Ok(true) on the third
C18_Witness ==
    /\ Returned
    /\ ThreeBytes
    /\ NumCandidates = 3
    /\ Len(Writes) = 3
    /\ Len(Resolves) = 2
    /\ ret = Ok(TRUE)

====
